---- MODULE Spec2Model ----
(***************************************************************************)
(* Model of the layer-reconciliation engine of ai-persistency-layer.       *)
(*                                                                         *)
(* The repository carries three revisions of the driver `run`:             *)
(*   "strict"   part_006:346-633  refuses to run when the layer is absent  *)
(*   "seed"     part_006:868-1093 creates the layer when it is absent      *)
(*   "recreate" src/cli.ts:146-351 removes the layer and rebuilds it       *)
(* The first two call the file helpers of part_004, the third the helpers  *)
(* of part_003.  The variable `variant` selects the revision.              *)
(*                                                                         *)
(* A path is a tuple of names relative to the project root (<<>> is the    *)
(* project root).  The disk is a record [f, d]: f maps the paths of the    *)
(* regular files to their content, d is the set of directories.            *)
(***************************************************************************)
EXTENDS Integers, Sequences, FiniteSets, TLC

VARIABLES variant, disk, origin, snap0, clock, runs, plan, pc, opts, loc,
          wlog, exitCode, writers

vars == <<variant, disk, origin, snap0, clock, runs, plan, pc, opts, loc,
          wlog, exitCode, writers>>

(***************************************************************************)
(* Bounds                                                                  *)
(***************************************************************************)
MaxRuns == 2

(***************************************************************************)
(* Program constants                                                       *)
(***************************************************************************)
CANONICAL_DOMAIN_DIRS == <<"functional", "technical", "ai-meta">>
DEFAULT_PERSISTENCY_DIR == "ai"
DEFAULT_LOG_FILE == "_bootstrap.log"
DEFAULT_BOOTSTRAP_FILE == "ai-bootstrap.mdc"
DEFAULT_CONFIG_FILE == "ai-config.env"
DEFAULT_START_SCRIPT == "ai-start.sh"
DEFAULT_SNAPSHOT_DIR == <<"technical", "snapshots">>
DEFAULT_UPSERT_SCRIPT == "ai-upsert.sh"
PERSISTENCY_METADATA_FILE == ".persistency-meta.json"
PERSISTENCY_POINTER_FILE == ".persistency-path"
UPSERT_PROMPT_FILE == "persistency.upsert.prompt.mdc"
EXIT_CODES == [SUCCESS |-> 0, GENERIC_FAILURE |-> 1, NOT_GIT_REPO |-> 2,
               AGENT_MISSING |-> 3, AUTH_MISSING |-> 4, INVALID_ARGS |-> 5]

\* the value JavaScript calls undefined, for string-valued options
Undefined == "<undefined>"
\* resolveTruthBranch: the branch the project is checked out on
currentBranch == "main"
\* names of the timestamps dayjs().format("YYYYMMDD-HHmmss") yields, by second
StampNames == <<"t1", "t2", "t3", "t4", "t5", "t6">>
Stamp(n) == StampNames[n]
\* basename of the project directory
ProjectBase == "proj"
Canonical == {CANONICAL_DOMAIN_DIRS[i] : i \in 1..Len(CANONICAL_DOMAIN_DIRS)}

(***************************************************************************)
(* Paths (node:path)                                                       *)
(***************************************************************************)
IsPrefix(p, q) == Len(p) <= Len(q) /\ SubSeq(q, 1, Len(p)) = p
Prefixes(p) == {SubSeq(p, 1, k) : k \in 0..Len(p)}
Dirname(p) == SubSeq(p, 1, Len(p) - 1)
Basename(p) == IF p = <<>> THEN ProjectBase ELSE p[Len(p)]
Rebase(q, src, dst) == dst \o SubSeq(q, Len(src) + 1, Len(q))
\* path.resolve(projectPath, dir) for the one-level directories of the model
ResolveDir(dir) == IF dir \in {"", "."} THEN <<>> ELSE <<dir>>
\* path.relative(projectPath, target)
Relative(p) == IF p = <<>> THEN "" ELSE p[1]
\* `${path.basename(persistencyPath)}-backup`
BackupName(p) ==
  CASE Basename(p) = "ai" -> "ai-backup"
    [] Basename(p) = "custom-ai" -> "custom-ai-backup"
    [] OTHER -> "proj-backup"

(***************************************************************************)
(* File system (node:fs promises)                                          *)
(***************************************************************************)
access(fs, p) == p \in DOMAIN fs.f \/ p \in fs.d
mkdir(fs, p) == [fs EXCEPT !.d = fs.d \cup Prefixes(p)]
\* a write that leaves an existing file as it is
writeFileIfAbsent(fs, p, c) ==
  IF p \in DOMAIN fs.f THEN fs
  ELSE [fs EXCEPT !.f = [q \in DOMAIN fs.f \cup {p} |-> IF q = p THEN c ELSE fs.f[q]]]
writeFile(fs, p, c) ==
  [fs EXCEPT !.f = [q \in DOMAIN fs.f \cup {p} |-> IF q = p THEN c ELSE fs.f[q]]]
\* fs.rm(p, {recursive: true, force: true}); the project root itself stays a
\* directory of the model when p = <<>>
rm(fs, p) ==
  [f |-> [q \in {r \in DOMAIN fs.f : ~IsPrefix(p, r)} |-> fs.f[q]],
   d |-> {r \in fs.d : ~IsPrefix(p, r)} \cup {<<>>}]
\* fs.cp(src, dst, {recursive: true}): the tree under src is written under dst
cp(fs, src, dst) ==
  LET srcFiles == {q \in DOMAIN fs.f : IsPrefix(src, q)}
      srcDirs  == {q \in fs.d : IsPrefix(src, q)}
      newFiles == {Rebase(q, src, dst) : q \in srcFiles}
      from(t)  == CHOOSE q \in srcFiles : Rebase(q, src, dst) = t
  IN [f |-> [t \in DOMAIN fs.f \cup newFiles |->
               IF t \in newFiles THEN fs.f[from(t)] ELSE fs.f[t]],
      d |-> fs.d \cup {Rebase(q, src, dst) : q \in srcDirs} \cup Prefixes(Dirname(dst))]
\* the part of the disk below p, with paths relative to p
Tree(fs, p) ==
  [f |-> [t \in {Rebase(q, p, <<>>) : q \in {r \in DOMAIN fs.f : IsPrefix(p, r)}}
             |-> fs.f[p \o t]],
   d |-> {Rebase(q, p, <<>>) : q \in {r \in fs.d : IsPrefix(p, r)}}]
NoFile == [kind |-> "absent"]
Read(fs, p) == IF p \in DOMAIN fs.f THEN fs.f[p] ELSE NoFile

(***************************************************************************)
(* File contents.  A content is a record with a field `kind`; generated    *)
(* documents record the values substituted into their template.            *)
(***************************************************************************)
\* hand-authored text; `mentions` is the set of directory names that occur in it
UserText(tag, names) == [kind |-> "user", tag |-> tag, mentions |-> names]
\* String.prototype.includes on the text of a document
Includes(c, name) == IF "mentions" \in DOMAIN c THEN name \in c.mentions ELSE FALSE
FoundationDoc(domain, o) ==
  [kind |-> "foundation", domain |-> domain, projectName |-> o.projectName,
   agent |-> IF domain = "ai-meta" THEN o.agent ELSE Undefined]
IndexDoc(domain) == [kind |-> "index", domain |-> domain]
BootstrapDoc(o, metrics, truthBranch, truthCommit) ==
  [kind |-> "bootstrap", projectName |-> o.projectName, agent |-> o.agent,
   truthBranch |-> truthBranch, truthCommit |-> truthCommit,
   daysSinceUpdate |-> metrics.daysSinceUpdate,
   commitsSinceTruth |-> metrics.commitsSinceTruth,
   mentions |-> Canonical]
ConfigDoc(o, P, aiCmd) ==
  [kind |-> "config", projectName |-> o.projectName, persistencyDir |-> Relative(P),
   agent |-> o.agent, aiCmd |-> aiCmd]
StartScriptDoc(aiCmd) == [kind |-> "start", aiCmd |-> aiCmd]
UpsertScriptDoc(aiCmd) == [kind |-> "upsert", aiCmd |-> aiCmd]
AntiDriftDoc(name, relDir) == [kind |-> "anti-drift", name |-> name, persistencyDir |-> relDir]
\* text written to the pointer file and read back from it, as a sequence of
\* tokens: a directory name is one token, " " and "\n" are whitespace
TextDoc(tokens) == [kind |-> "text", txt |-> tokens]
Whitespace == {" ", "\n"}
RECURSIVE TrimStart(_)
TrimStart(t) == IF t # <<>> /\ Head(t) \in Whitespace THEN TrimStart(Tail(t)) ELSE t
RECURSIVE TrimEnd(_)
TrimEnd(t) ==
  IF t # <<>> /\ t[Len(t)] \in Whitespace THEN TrimEnd(SubSeq(t, 1, Len(t) - 1)) ELSE t
\* String.prototype.trim
Trim(t) == TrimEnd(TrimStart(t))

(***************************************************************************)
(* part_004 (lib/fs-utils): layout analysis                                *)
(***************************************************************************)
\* names for which dir.startsWith(".") holds
DotNames == {".git", ".cache"}
\* the names of the directories that are immediate children of P
Subdirectories(fs, P) ==
  {q[Len(P) + 1] : q \in {r \in fs.d : Len(r) = Len(P) + 1 /\ IsPrefix(P, r)}}
\* the canonical names looked up among the extra directories only
missingCanonicalAmongExtras(dirs) ==
  {dir \in Canonical : dir \notin {d \in dirs : d \notin Canonical}}
\* CANONICAL_DOMAIN_DIRS.filter((dir) => !dirs.includes(dir))
missingCanonical(dirs) == {dir \in Canonical : dir \notin dirs}
\* the analysis that takes every extra directory for a referenced one as
\* soon as a bootstrap document exists
analyzePersistencyLayoutAnyText(fs, P) ==
  IF P \notin fs.d
  THEN [directories |-> {}, extraDirectories |-> {}, referencedExtras |-> {},
        unreferencedExtras |-> {}, missingCanonicalDirs |-> Canonical,
        bootstrapFound |-> FALSE]
  ELSE LET dirs == Subdirectories(fs, P)
           extraDirectories ==
             {dir \in dirs : dir \notin Canonical /\ dir \notin DotNames /\ dir # "node_modules"}
           bootstrapFound == P \o <<DEFAULT_BOOTSTRAP_FILE>> \in DOMAIN fs.f
       IN [directories |-> dirs, extraDirectories |-> extraDirectories,
           referencedExtras |-> IF bootstrapFound THEN extraDirectories ELSE {},
           unreferencedExtras |-> IF bootstrapFound THEN {} ELSE extraDirectories,
           missingCanonicalDirs |-> missingCanonical(dirs),
           bootstrapFound |-> bootstrapFound]
analyzePersistencyLayout(fs, P) ==
  IF P \notin fs.d
  THEN [directories |-> {}, extraDirectories |-> {}, referencedExtras |-> {},
        unreferencedExtras |-> {}, missingCanonicalDirs |-> Canonical,
        bootstrapFound |-> FALSE]
  ELSE LET dirs == Subdirectories(fs, P)
           extraDirectories ==
             {dir \in dirs : dir \notin Canonical /\ dir \notin DotNames /\ dir # "node_modules"}
           bootstrapPath == P \o <<DEFAULT_BOOTSTRAP_FILE>>
           bootstrapFound == bootstrapPath \in DOMAIN fs.f
           referenced(dir) == bootstrapFound /\ Includes(fs.f[bootstrapPath], dir)
       IN [directories |-> dirs, extraDirectories |-> extraDirectories,
           referencedExtras |-> {dir \in extraDirectories : referenced(dir)},
           unreferencedExtras |-> {dir \in extraDirectories : ~referenced(dir)},
           missingCanonicalDirs |-> missingCanonical(dirs),
           bootstrapFound |-> bootstrapFound]

(***************************************************************************)
(* part_004 (lib/fs-utils): conditional write                              *)
(***************************************************************************)
\* the conditional write without its test of force: an existing target is
\* always replaced
safeWriteFileClobber(fs, filePath, content, force) ==
  LET fs1 == mkdir(fs, Dirname(filePath))
  IN IF access(fs1, filePath)
     THEN [fs |-> writeFile(fs1, filePath, content), result |-> "updated"]
     ELSE [fs |-> writeFile(fs1, filePath, content), result |-> "created"]
safeWriteFile(fs, filePath, content, force) ==
  LET fs1 == mkdir(fs, Dirname(filePath))
  IN IF access(fs1, filePath)
     THEN IF ~force
          THEN [fs |-> fs1, result |-> "skipped"]
          ELSE [fs |-> writeFile(fs1, filePath, content), result |-> "updated"]
     ELSE [fs |-> writeFile(fs1, filePath, content), result |-> "created"]
\* a write request: one call of safeWriteFile
W(p, c, force) == [path |-> p, content |-> c, force |-> force]
\* the calls ws of safeWriteFile made in order; log records, for each call, the
\* target before the call, the arguments, the result and the target after it
RECURSIVE writeAll(_, _, _)
writeAll(fs, ws, log) ==
  IF ws = <<>> THEN [fs |-> fs, log |-> log]
  ELSE LET w == Head(ws)
           r == safeWriteFile(fs, w.path, w.content, w.force)
       IN writeAll(r.fs, Tail(ws),
                   Append(log, [path |-> w.path, content |-> w.content, force |-> w.force,
                                before |-> Read(fs, w.path), result |-> r.result,
                                after |-> Read(r.fs, w.path)]))

(***************************************************************************)
(* part_004 (lib/fs-utils): backup, assets, base layout                    *)
(***************************************************************************)
NoPath == <<Undefined>>
NoSources == <<NoPath>>
\* io names the call that raises an I/O error: "ok" none, "mkdir", "cp".
\* fs.cp refuses to copy a directory into a subdirectory of itself.
backupExistingLayer(fs, P, stamp, io) ==
  IF ~access(fs, P) THEN [fs |-> fs, backupDir |-> NoPath, threw |-> FALSE]
  ELSE LET backupDir == <<BackupName(P), stamp>>
           fs1 == mkdir(fs, backupDir)
       IN IF io = "mkdir" THEN [fs |-> fs, backupDir |-> NoPath, threw |-> TRUE]
          ELSE IF io = "cp" \/ IsPrefix(P, backupDir)
               THEN [fs |-> fs1, backupDir |-> NoPath, threw |-> TRUE]
               ELSE [fs |-> cp(fs1, P, backupDir), backupDir |-> backupDir, threw |-> FALSE]

\* the copy of the assets that gives up at the first asset that cannot be
\* copied
RECURSIVE copyAssetsUntilFailure(_, _, _, _)
copyAssetsUntilFailure(fs, assets, P, failing) ==
  IF assets = <<>> THEN [fs |-> fs, copied |-> <<>>, warned |-> {}]
  ELSE LET asset == Head(assets)
           target == P \o <<"ai-meta", "assets", Basename(asset)>>
           ok == access(fs, asset) /\ asset \notin failing
           rest == copyAssetsUntilFailure(cp(mkdir(fs, Dirname(target)), asset, target),
                                          Tail(assets), P, failing)
       IN IF ok THEN [fs |-> rest.fs, copied |-> <<target>> \o rest.copied,
                      warned |-> rest.warned]
          ELSE [fs |-> fs, copied |-> <<>>,
                warned |-> {[about |-> "asset", path |-> asset]}]
\* failing: the assets whose copy raises an I/O error
RECURSIVE copyAssets(_, _, _, _)
copyAssets(fs, assets, P, failing) ==
  IF assets = <<>> THEN [fs |-> fs, copied |-> <<>>, warned |-> {}]
  ELSE LET asset == Head(assets)
           target == P \o <<"ai-meta", "assets", Basename(asset)>>
           ok == access(fs, asset) /\ asset \notin failing
           fs1 == IF ok THEN cp(mkdir(fs, Dirname(target)), asset, target)
                  ELSE IF access(fs, asset) THEN mkdir(fs, Dirname(target)) ELSE fs
           rest == copyAssets(fs1, Tail(assets), P, failing)
       IN [fs |-> rest.fs,
           copied |-> IF ok THEN <<target>> \o rest.copied ELSE rest.copied,
           warned |-> IF ok THEN rest.warned
                      ELSE {[about |-> "asset", path |-> asset]} \cup rest.warned]

ensureBaseLayout(fs, P) ==
  mkdir(mkdir(mkdir(mkdir(fs, P \o <<"functional">>), P \o <<"technical">>),
              P \o <<"ai-meta", "legacy">>), P \o <<"ai-meta", "assets">>)

(***************************************************************************)
(* part_004 (lib/fs-utils): generated documents, as lists of write requests *)
(***************************************************************************)
\* the bootstrap document written as a run-derived artifact
writeBootstrapAlways(o, P, metrics, truthBranch, truthCommit, force) ==
  <<W(P \o <<DEFAULT_BOOTSTRAP_FILE>>, BootstrapDoc(o, metrics, truthBranch, truthCommit), TRUE)>>
writeBootstrap(o, P, metrics, truthBranch, truthCommit, force) ==
  <<W(P \o <<DEFAULT_BOOTSTRAP_FILE>>, BootstrapDoc(o, metrics, truthBranch, truthCommit), force)>>

\* the foundation documents alone, as part_003 writes them
writeDomainFoundationsOnly(o, P, force) ==
  <<W(P \o <<"functional", "foundation.mdc">>, FoundationDoc("functional", o), force),
    W(P \o <<"technical", "foundation.mdc">>, FoundationDoc("technical", o), force),
    W(P \o <<"ai-meta", "foundation.mdc">>, FoundationDoc("ai-meta", o), force)>>
writeDomainFoundations(o, P, force) ==
  <<W(P \o <<"functional", "foundation.mdc">>, FoundationDoc("functional", o), force),
    W(P \o <<"functional", "index.mdc">>, IndexDoc("functional"), force),
    W(P \o <<"technical", "foundation.mdc">>, FoundationDoc("technical", o), force),
    W(P \o <<"technical", "index.mdc">>, IndexDoc("technical"), force),
    W(P \o <<"ai-meta", "foundation.mdc">>, FoundationDoc("ai-meta", o), force),
    W(P \o <<"ai-meta", "index.mdc">>, IndexDoc("ai-meta"), force)>>

writeConfigEnv(o, P, force, aiCmd) ==
  <<W(P \o <<DEFAULT_CONFIG_FILE>>, ConfigDoc(o, P, aiCmd), force)>>

writeAntiDriftScripts(persistencyRelDir, force) ==
  <<W(<<"scripts", "ai", "check-stale.ts">>, AntiDriftDoc("check-stale", persistencyRelDir), force),
    W(<<"scripts", "ai", "refresh-layer.ts">>, AntiDriftDoc("refresh-layer", persistencyRelDir), force)>>

\* the launcher written as a conditional artifact, as part_003 writes it
writeStartScriptConditional(P, aiCmd, force) ==
  <<W(P \o <<DEFAULT_START_SCRIPT>>, StartScriptDoc(aiCmd), force)>>
writeStartScript(P, aiCmd, force) ==
  <<W(P \o <<DEFAULT_START_SCRIPT>>, StartScriptDoc(aiCmd), TRUE)>>
writeUpsertScript(P, aiCmd, force) ==
  <<W(P \o <<DEFAULT_UPSERT_SCRIPT>>, UpsertScriptDoc(aiCmd), TRUE)>>

\* Array.from(new Set(items)): first occurrences, in order
RECURSIVE Unique(_)
Unique(items) ==
  IF items = <<>> THEN <<>>
  ELSE LET front == Unique(SubSeq(items, 1, Len(items) - 1))
           last == items[Len(items)]
       IN IF \E i \in 1..Len(front) : front[i] = last THEN front ELSE Append(front, last)
\* bulletList(items, emptyFallback)
bulletList(items, emptyFallback) == IF items = <<>> THEN <<emptyFallback>> ELSE items
\* intakeNotes.split(/\r?\n/).map(trim).filter(Boolean): the notes are a
\* sequence of lines, a blank line is "" or " "
NonBlank(line) == line \notin {"", " "}
\* the bullets of the notes with the blank lines kept
noteBulletsOfEveryLine(intakeNotes) ==
  bulletList(intakeNotes, "_(no supplemental notes provided)_")
noteBullets(intakeNotes) ==
  IF intakeNotes = <<>> THEN <<"_(no supplemental notes provided)_">>
  ELSE bulletList(SelectSeq(intakeNotes, NonBlank), "_(no supplemental notes provided)_")

BriefDoc(context) ==
  [kind |-> "brief", projectName |-> context.projectName, agent |-> context.agent,
   existingLayer |-> context.existingLayer,
   sources |-> Unique(context.sources),
   notes |-> noteBullets(context.intakeNotes),
   referencedExtras |-> context.referencedExtras,
   unreferencedExtras |-> context.unreferencedExtras,
   missingCanonical |-> context.missingCanonicalDirs]
writeMigrationBrief(P, context) ==
  <<W(P \o <<"ai-meta", "migration-brief.mdc">>, BriefDoc(context), TRUE)>>

\* `${persistencyRelDir}/${dir}`
Under(relDir, dir) == <<relDir, dir>>
PromptDoc(persistencyRelDir, context) ==
  [kind |-> "prompt", projectName |-> context.projectName, agent |-> context.agent,
   persistencyDir |-> persistencyRelDir,
   canonicalPaths |-> {Under(persistencyRelDir, dir) : dir \in Canonical},
   existingExtras |-> {Under(persistencyRelDir, dir) : dir \in context.layout.extraDirectories},
   referencedExtras |-> {Under(persistencyRelDir, dir) : dir \in context.layout.referencedExtras},
   unreferencedExtras |-> {Under(persistencyRelDir, dir) : dir \in context.layout.unreferencedExtras},
   missingCanonical |-> context.layout.missingCanonicalDirs,
   notes |-> noteBullets(context.intakeNotes),
   migrationBrief |-> context.migrationBriefRelPath]
writeUpsertPrompt(persistencyRelDir, context) ==
  <<W(<<UPSERT_PROMPT_FILE>>, PromptDoc(persistencyRelDir, context), TRUE)>>

\* the pointer value chosen by writeMetadata and the text it writes
pointerValue(P, metadata) ==
  IF metadata.persistencyDir # Undefined /\ metadata.persistencyDir # ""
  THEN metadata.persistencyDir ELSE Relative(P)
PointerText(value) == TextDoc(IF value = "" THEN <<"\n">> ELSE <<value, "\n">>)

(***************************************************************************)
(* part_003 (lib/fs-utils of the "recreate" revision)                      *)
(***************************************************************************)
ensureBaseLayoutV1(fs, P) == mkdir(ensureBaseLayout(fs, P), P \o DEFAULT_SNAPSHOT_DIR)
writeBootstrapV1(o, P, metrics, truthBranch, snapshotPath, force) ==
  <<W(P \o <<DEFAULT_BOOTSTRAP_FILE>>,
      [kind |-> "bootstrap-v1", projectName |-> o.projectName, agent |-> o.agent,
       truthBranch |-> truthBranch, snapshotPath |-> snapshotPath,
       daysSinceUpdate |-> metrics.daysSinceUpdate,
       commitsSinceTruth |-> metrics.commitsSinceTruth, mentions |-> Canonical],
      force)>>
writeDomainFoundationsV1(o, P, force) ==
  <<W(P \o <<"functional", "foundation.mdc">>, FoundationDoc("functional", o), force),
    W(P \o <<"technical", "foundation.mdc">>, FoundationDoc("technical", o), force),
    W(P \o <<"ai-meta", "foundation.mdc">>, FoundationDoc("ai-meta", o), force)>>
writeLegacyImportManifest(P, sources) ==
  <<W(P \o <<"ai-meta", "legacy-import.mdc">>,
      [kind |-> "legacy-import", sources |-> sources], TRUE)>>
writeStartScriptV1(P, aiCmd, force) ==
  <<W(P \o <<DEFAULT_START_SCRIPT>>, [kind |-> "start-v1", aiCmd |-> aiCmd], force)>>
\* writeSnapshotFile(snapshot, persistencyPath, DEFAULT_SNAPSHOT_DIR): the file
\* that holds the snapshot of the truth branch
snapshotFile(P, truthCommit) == P \o DEFAULT_SNAPSHOT_DIR \o <<truthCommit>>

(***************************************************************************)
(* cli: metadata record, pointer file, resolution of the layer directory   *)
(***************************************************************************)
NoNotes == <<Undefined>>
\* JSON.parse of the file at p, or NoFile (undefined) when the file is
\* missing or is not a metadata record
readExistingMetadata(fs, p) ==
  IF p \in DOMAIN fs.f /\ fs.f[p].kind = "meta" THEN fs.f[p] ELSE NoFile
\* the difference in days without the lower bound 0
daysSinceUnbounded(updatedAt, now) == (now - updatedAt) \div 2
\* Math.max(dayjs().diff(dayjs(updatedAt), "day"), 0), times in half days;
\* diff truncates towards zero
daysSince(updatedAt, now) ==
  IF now - updatedAt > 0 THEN (now - updatedAt) \div 2 ELSE 0
computeFreshnessMetrics(fs, metadataPath, commitsSinceTruth, now) ==
  LET metadata == readExistingMetadata(fs, metadataPath)
  IN IF metadata # NoFile /\ "updatedAt" \in DOMAIN metadata
     THEN [daysSinceUpdate |-> daysSince(metadata.updatedAt, now),
           commitsSinceTruth |-> commitsSinceTruth]
     ELSE [daysSinceUpdate |-> 0, commitsSinceTruth |-> commitsSinceTruth]
readPersistencyPointer(fs) ==
  LET p == <<PERSISTENCY_POINTER_FILE>>
  IN IF p \in DOMAIN fs.f /\ fs.f[p].kind = "text"
     THEN LET trimmed == Trim(fs.f[p].txt)
          IN IF Len(trimmed) = 1 THEN trimmed[1] ELSE Undefined
     ELSE Undefined
\* the existence test that finds every path
pathExistsAnyway(fs, target) == TRUE
pathExists(fs, target) == access(fs, target)
\* a ?? b
Coalesce(a, b) == IF a = Undefined THEN b ELSE a

applyMetadataDefaults(fs, flags) ==
  LET defaultPersistencyDir == Coalesce(flags.persistencyDir, DEFAULT_PERSISTENCY_DIR)
      pointerDir == IF flags.persistencyDirProvided THEN Undefined
                    ELSE readPersistencyPointer(fs)
      candidatePersistencyDir ==
        IF flags.persistencyDirProvided THEN defaultPersistencyDir
        ELSE Coalesce(pointerDir, defaultPersistencyDir)
      first == readExistingMetadata(fs, ResolveDir(candidatePersistencyDir)
                                          \o <<PERSISTENCY_METADATA_FILE>>)
      metadata == IF first # NoFile THEN first
                  ELSE readExistingMetadata(fs, <<PERSISTENCY_METADATA_FILE>>)
  IN [flags |-> [flags EXCEPT
                   !.persistencyDir = IF metadata = NoFile THEN candidatePersistencyDir
                                      ELSE Coalesce(metadata.persistencyDir,
                                                    candidatePersistencyDir),
                   !.projectName = IF metadata = NoFile THEN @
                                   ELSE Coalesce(@, metadata.projectName),
                   !.intakeNotes = IF metadata = NoFile \/ @ # NoNotes THEN @
                                   ELSE metadata.intakeNotes],
      metadataFound |-> metadata # NoFile]
\* src/cli.ts: no pointer file; the flags are returned as they are when no
\* metadata record is found
applyMetadataDefaultsV1(fs, flags) ==
  LET candidatePersistencyDir == Coalesce(flags.persistencyDir, DEFAULT_PERSISTENCY_DIR)
      first == readExistingMetadata(fs, ResolveDir(candidatePersistencyDir)
                                          \o <<PERSISTENCY_METADATA_FILE>>)
      metadata == IF first # NoFile THEN first
                  ELSE readExistingMetadata(fs, <<PERSISTENCY_METADATA_FILE>>)
  IN [flags |-> IF metadata = NoFile THEN flags
                ELSE [flags EXCEPT
                        !.persistencyDir = Coalesce(metadata.persistencyDir, @),
                        !.projectName = Coalesce(@, metadata.projectName)],
      metadataFound |-> metadata # NoFile]

\* the top-level handler run().catch: an error is [name, words], words being
\* the substrings of its message the handler looks for
Err(name, words) == [name |-> name, words |-> words]
catchHandler(error) ==
  IF error.name = "GitRepoError" THEN EXIT_CODES.NOT_GIT_REPO
  ELSE IF "Missing" \in error.words /\ "CLI" \in error.words THEN EXIT_CODES.AGENT_MISSING
  ELSE IF "authentication" \in error.words THEN EXIT_CODES.AUTH_MISSING
  ELSE IF "Missing required" \in error.words THEN EXIT_CODES.INVALID_ARGS
  ELSE EXIT_CODES.GENERIC_FAILURE
IOError == Err("Error", {})

MetadataDoc(o, P, truthBranch, truthCommit, now, copiedAssets, legacySources, metrics) ==
  [kind |-> "meta", projectName |-> o.projectName, agent |-> o.agent,
   persistencyDir |-> Relative(P), prodBranch |-> truthBranch,
   snapshotRef |-> truthCommit, updatedAt |-> now,
   assets |-> copiedAssets, legacySources |-> legacySources,
   intakeNotes |-> IF o.intakeNotes = <<>> THEN NoNotes ELSE o.intakeNotes,
   daysSinceUpdate |-> metrics.daysSinceUpdate,
   commitsSinceTruth |-> metrics.commitsSinceTruth]

(***************************************************************************)
(* Invocations: the flags of a command line and the answers of its          *)
(* environment (git, agent CLI, prompts, clock, I/O errors)                 *)
(***************************************************************************)
\* scripts/test-package.mjs: the flags of the packaged smoke test
Base ==
  [persistencyDirProvided |-> TRUE, persistencyDir |-> "custom-ai",
   projectName |-> "sample", agent |-> "codex", aiCmd |-> "node",
   force |-> FALSE, keepBackup |-> FALSE, logHistory |-> FALSE,
   prevLayer |-> NoPath, assets |-> <<>>, intakeNotes |-> NoNotes,
   nonInteractive |-> TRUE, yes |-> TRUE, writeConfig |-> TRUE,
   gitRepo |-> TRUE, cliFound |-> TRUE, authFound |-> TRUE,
   answerDir |-> Undefined, confirm |-> TRUE, tick |-> TRUE,
   truthCommit |-> "c1", commits |-> 0, fault |-> "none"]
\* --persistency-dir <dir>, or no such flag: commander leaves the default
WithDir(i, dir) ==
  IF dir = Undefined
  THEN [i EXCEPT !.persistencyDirProvided = FALSE, !.persistencyDir = DEFAULT_PERSISTENCY_DIR]
  ELSE [i EXCEPT !.persistencyDirProvided = TRUE, !.persistencyDir = dir]
Faults == {"backup.mkdir", "backup.cp", "layout", "legacy.cp", "asset.cp",
           "foundations.first", "foundations.last", "foundations.torn",
           "artifacts.first", "artifacts.last", "artifacts.torn",
           "metadata", "pointer", "log"}
\* the reconciliation flags, all combinations
CoreInv ==
  {[Base EXCEPT !.force = f, !.keepBackup = k, !.logHistory = l] : f, k, l \in BOOLEAN}
FaultInv ==
  {[Base EXCEPT !.fault = x, !.force = f, !.logHistory = TRUE,
                !.keepBackup = x \in {"backup.mkdir", "backup.cp"},
                !.prevLayer = IF x = "legacy.cp" THEN <<"old-ai">> ELSE NoPath,
                !.assets = IF x = "asset.cp"
                          THEN <<<<"docs", "a.csv">>, <<"other", "a.csv">>>> ELSE <<>>]
     : x \in Faults, f \in BOOLEAN}
EdgeInv ==
  {[Base EXCEPT !.gitRepo = FALSE], [Base EXCEPT !.cliFound = FALSE],
   [Base EXCEPT !.authFound = FALSE], [Base EXCEPT !.yes = FALSE],
   [Base EXCEPT !.projectName = Undefined],
   [Base EXCEPT !.aiCmd = Undefined, !.writeConfig = FALSE],
   [Base EXCEPT !.intakeNotes = <<"jira", " ", "wiki">>, !.commits = 3]}
  \cup {[Base EXCEPT !.yes = FALSE, !.nonInteractive = FALSE, !.writeConfig = FALSE,
                     !.confirm = c, !.answerDir = a]
          : c \in BOOLEAN, a \in {Undefined, "custom-ai", "ai"}}
  \cup {[Base EXCEPT !.prevLayer = q, !.keepBackup = k]
          : q \in {<<"old-ai">>, <<"missing">>, <<"custom-ai">>}, k \in BOOLEAN}
  \cup {[Base EXCEPT !.assets = a, !.force = f]
          : a \in {<<<<"docs", "a.csv">>>>, <<<<"docs", "a.csv">>, <<"docs", "none">>>>,
                   <<<<"docs", "none">>, <<"docs", "a.csv">>>>,
                   <<<<"docs", "a.csv">>, <<"other", "a.csv">>>>},
            f \in BOOLEAN}
  \cup {[Base EXCEPT !.persistencyDir = ".", !.keepBackup = k, !.force = f]
          : k, f \in BOOLEAN}
\* the directory choices of a command line
DirInv == {WithDir(Base, d) : d \in {Undefined, "ai", "custom-ai", "."}}

\* two command lines with the same flags and answers, whatever the clock does
SameInputs(i, j) == [i EXCEPT !.tick = TRUE] = [j EXCEPT !.tick = TRUE]
\* the command lines that may follow command line i in a plan
Followups(i) ==
  IF i \in CoreInv
  THEN {i, [i EXCEPT !.force = ~@], [i EXCEPT !.logHistory = ~@],
        WithDir(i, Undefined), [i EXCEPT !.tick = FALSE]}
  ELSE IF i \in DirInv THEN DirInv
  ELSE {[i EXCEPT !.fault = "none", !.tick = t] : t \in BOOLEAN}
RECURSIVE Chains(_, _)
Chains(first, n) ==
  IF n <= 1 THEN {<<i>> : i \in first}
  ELSE UNION {{Append(c, j) : j \in Followups(c[Len(c)])} : c \in Chains(first, n - 1)}

(***************************************************************************)
(* Projects on disk before the first run                                   *)
(***************************************************************************)
BaseDisk ==
  [f |-> (<<"old-ai", "notes.mdc">> :> UserText("old-notes", {}))
         @@ (<<"docs", "a.csv">> :> UserText("asset-a", {}))
         @@ (<<"other", "a.csv">> :> UserText("asset-b", {})),
   d |-> {<<>>, <<".git">>, <<"old-ai">>, <<"docs">>, <<"other">>}]
RECURSIVE WriteFiles(_, _)
WriteFiles(fs, files) ==
  IF files = <<>> THEN fs
  ELSE WriteFiles(writeFile(mkdir(fs, Dirname(files[1][1])), files[1][1], files[1][2]),
                  Tail(files))
\* scripts/test-package.mjs: a hand-made layer with a note, an extra
\* directory and a bootstrap file that mentions it
LegacyLayer(fs, L) ==
  WriteFiles(mkdir(mkdir(mkdir(fs, L \o <<"technical">>), L \o <<"ai-meta">>),
                   L \o <<"archive">>),
             <<<<L \o <<"functional", "legacy-note.mdc">>, UserText("legacy-note", {})>>,
               <<L \o <<DEFAULT_BOOTSTRAP_FILE>>, UserText("bootstrap", {"archive"})>>>>)
\* a hand-made layer without technical/ and ai-meta/, with two extra
\* directories, one of them named in the bootstrap file, a hidden directory
\* and node_modules
PartialLayer(fs, L) ==
  WriteFiles(mkdir(mkdir(mkdir(mkdir(fs, L \o <<"archive">>), L \o <<"drafts">>),
                         L \o <<".cache">>), L \o <<"node_modules">>),
             <<<<L \o <<"functional", "legacy-note.mdc">>, UserText("legacy-note", {})>>,
               <<L \o <<DEFAULT_BOOTSTRAP_FILE>>, UserText("bootstrap", {"archive"})>>>>)
\* a layer an earlier run has reconciled and people and agents have edited
\* since; its record names the directory `recorded`
EarlierOptions == [projectName |-> "sample", agent |-> "codex", intakeNotes |-> <<>>]
EarlierMetadata(recorded) ==
  [MetadataDoc(EarlierOptions, <<recorded>>, currentBranch, "c0", -3, <<>>, NoSources,
               [daysSinceUpdate |-> 0, commitsSinceTruth |-> 0])
     EXCEPT !.persistencyDir = recorded]
ManagedLayer(fs, L, recorded) ==
  WriteFiles(ensureBaseLayout(fs, L),
    <<<<L \o <<"functional", "legacy-note.mdc">>, UserText("legacy-note", {})>>,
      <<L \o <<"functional", "foundation.mdc">>, FoundationDoc("functional", EarlierOptions)>>,
      <<L \o <<"functional", "index.mdc">>, UserText("index-functional", {})>>,
      <<L \o <<"technical", "index.mdc">>, IndexDoc("technical")>>,
      <<L \o <<DEFAULT_BOOTSTRAP_FILE>>,
        BootstrapDoc(EarlierOptions, [daysSinceUpdate |-> 0, commitsSinceTruth |-> 0],
                     currentBranch, "c0")>>,
      <<L \o <<DEFAULT_START_SCRIPT>>, StartScriptDoc("old-cmd")>>,
      <<L \o <<DEFAULT_UPSERT_SCRIPT>>, UpsertScriptDoc("old-cmd")>>,
      <<L \o <<"ai-meta", "migration-brief.mdc">>, [kind |-> "brief", projectName |-> "old"]>>,
      <<L \o <<DEFAULT_LOG_FILE>>, [kind |-> "log", lines |-> <<<<"t0", "refreshed">>>>]>>,
      <<L \o <<PERSISTENCY_METADATA_FILE>>, EarlierMetadata(recorded)>>,
      <<<<UPSERT_PROMPT_FILE>>, [kind |-> "prompt", projectName |-> "old"]>>>>)
\* times of the earlier record: two and a half days back, and ahead of now
RecordTimes == {-4, 5}
\* the record of layer L carries the time t
WithUpdatedAt(fs, L, t) ==
  LET p == L \o <<PERSISTENCY_METADATA_FILE>>
  IN writeFile(fs, p, [fs.f[p] EXCEPT !.updatedAt = t])
\* the record of layer L, edited by hand, carries no time
WithoutUpdatedAt(fs, L) ==
  LET p == L \o <<PERSISTENCY_METADATA_FILE>>
  IN writeFile(fs, p, [k \in DOMAIN fs.f[p] \ {"updatedAt"} |-> fs.f[p][k]])
WithPointer(fs, text) ==
  IF text = <<>> THEN fs ELSE writeFile(fs, <<PERSISTENCY_POINTER_FILE>>, TextDoc(text))

\* reconciliation scenarios: the layer custom-ai is absent, hand-made
\* (complete or partial) or managed
ManagedDisk ==
  WithPointer(ManagedLayer(BaseDisk, <<"custom-ai">>, "custom-ai"), <<"custom-ai", "\n">>)
ReconcileDisks ==
  {BaseDisk, LegacyLayer(BaseDisk, <<"custom-ai">>), PartialLayer(BaseDisk, <<"custom-ai">>),
   ManagedDisk, WithoutUpdatedAt(ManagedDisk, <<"custom-ai">>)}
  \cup {WithUpdatedAt(ManagedDisk, <<"custom-ai">>, t) : t \in RecordTimes}
\* resolution scenarios: custom-ai managed, its record naming itself or ai;
\* ai absent or managed; the pointer absent, naming custom-ai, or blank
ResolveDisks ==
  {WithPointer(IF other THEN ManagedLayer(ManagedLayer(BaseDisk, <<"ai">>, "ai"),
                                          <<"custom-ai">>, recorded)
               ELSE ManagedLayer(BaseDisk, <<"custom-ai">>, recorded), text)
     : recorded \in {"custom-ai", "ai"}, other \in BOOLEAN,
       text \in {<<>>, <<" ", "custom-ai", "\n">>, <<" ", "\n">>}}
Scenarios ==
  {[variant |-> v, disk |-> fs, plan |-> c]
     : v \in {"strict", "seed", "recreate"}, fs \in ReconcileDisks,
       c \in Chains(CoreInv \cup FaultInv \cup EdgeInv, MaxRuns)}
  \cup
  {[variant |-> v, disk |-> fs, plan |-> c]
     : v \in {"strict", "seed"}, fs \in ResolveDisks, c \in Chains(DirInv, MaxRuns)}

(***************************************************************************)
(* State of one invocation of run                                          *)
(***************************************************************************)
NoExit == -1
NoLayout == analyzePersistencyLayout([f |-> <<>>, d |-> {}], <<>>)
\* prevDone, prevP: whether the run before this one succeeded, and its layer;
\* prevSame: it succeeded and was given the command line of this run
\* prevCut: it was cut short by a failure and was given the command line of
\* this run
InitLoc ==
  [persistencyDir |-> Undefined, P |-> NoPath, metadataFound |-> FALSE,
   prompted |-> FALSE, projectName |-> Undefined, intakeNotes |-> <<>>,
   aiCmd |-> Undefined, daysSinceUpdate |-> 0, layout |-> NoLayout,
   legacySources |-> <<>>, backupPath |-> NoPath, legacyDir |-> NoPath,
   copiedAssets |-> <<>>, metadata |-> NoFile, metaWritten |-> FALSE,
   failedStage |-> "none", warnings |-> {},
   prevDone |-> FALSE, prevP |-> NoPath, prevSame |-> FALSE, prevCut |-> FALSE]
\* the resolved options the file helpers read
Options == [projectName |-> loc.projectName, agent |-> opts.agent,
            intakeNotes |-> loc.intakeNotes]
Metrics == [daysSinceUpdate |-> loc.daysSinceUpdate, commitsSinceTruth |-> opts.commits]
\* path.relative(projectPath, persistencyPath) || "."
existingLayerRel == IF Relative(loc.P) = "" THEN "." ELSE Relative(loc.P)
\* the time of the run in half days; updatedAt of the record a run writes
Now == runs

Throw(error, stage) ==
  /\ pc' = "failed"
  /\ exitCode' = catchHandler(error)
  /\ loc' = [loc EXCEPT !.failedStage = stage]
\* process.exit(code) inside run
Exit(code, stage) ==
  /\ pc' = "failed"
  /\ exitCode' = code
  /\ loc' = [loc EXCEPT !.failedStage = stage]

(***************************************************************************)
(* run: one action per stage                                               *)
(***************************************************************************)
StartRun ==
  /\ pc \in {"idle", "done", "failed"}
  /\ plan # <<>>
  /\ runs < MaxRuns
  /\ opts' = Head(plan)
  /\ plan' = Tail(plan)
  /\ runs' = runs + 1
  /\ clock' = clock + (IF Head(plan).tick THEN 1 ELSE 0)
  /\ snap0' = disk
  /\ loc' = [InitLoc EXCEPT !.prevDone = (pc = "done"), !.prevP = loc.P,
                            !.prevSame = (pc = "done" /\ SameInputs(opts, Head(plan))),
                            !.prevCut = /\ pc = "failed"
                                        /\ opts.fault # "none"
                                        /\ SameInputs([opts EXCEPT !.fault = "none"],
                                                      Head(plan))]
  /\ wlog' = <<>>
  /\ exitCode' = NoExit
  /\ pc' = "resolve"
  /\ UNCHANGED <<writers, variant, disk, origin>>

\* applyMetadataDefaults, promptForPersistencyDir, promptForMissingOptions /
\* resolveOptions, and the computation of persistencyPath
ResolveOptions ==
  /\ pc = "resolve"
  /\ LET r1 == IF variant = "recreate" THEN applyMetadataDefaultsV1(disk, opts)
               ELSE applyMetadataDefaults(disk, opts)
         ask == variant = "strict" /\ ~r1.metadataFound /\ ~r1.flags.nonInteractive
         shown == Coalesce(r1.flags.persistencyDir, DEFAULT_PERSISTENCY_DIR)
         chosenDir == IF opts.answerDir \in {Undefined, ""} THEN shown ELSE opts.answerDir
         r2 == IF ask
               THEN applyMetadataDefaults(disk, [r1.flags EXCEPT !.persistencyDir = chosenDir,
                                                                 !.persistencyDirProvided = TRUE])
               ELSE r1
         flags == r2.flags
         missing == variant # "seed" /\ flags.nonInteractive /\ flags.projectName = Undefined
         dir == Coalesce(flags.persistencyDir, DEFAULT_PERSISTENCY_DIR)
     IN IF missing
        THEN /\ Throw(Err("Error", {"Missing", "Missing required"}), "resolve")
        ELSE /\ loc' = [loc EXCEPT !.persistencyDir = dir,
                                   !.P = ResolveDir(dir),
                                   !.metadataFound = r2.metadataFound,
                                   !.prompted = ask,
                                   !.projectName = Coalesce(flags.projectName, ProjectBase),
                                   !.intakeNotes = IF flags.intakeNotes = NoNotes THEN <<>>
                                                   ELSE flags.intakeNotes]
             /\ pc' = "preflight"
             /\ UNCHANGED exitCode
  /\ UNCHANGED <<writers, variant, disk, origin, snap0, clock, runs, plan, opts, wlog>>

\* the confirmation that lets every run go on
proceedUnasked(o) == TRUE
\* if (!options.yes) { confirmation = prompt(...) }: the run goes on with
\* --yes or with the answer yes
proceed(o) == o.yes \/ o.confirm
\* ensureGitRepo, the freshness of the previous record, ensureAgentCli,
\* ensureAgentAuth, and the confirmations of the strict revision
Preflight ==
  /\ pc = "preflight"
  /\ LET previousMetadata ==
           readExistingMetadata(disk, loc.P \o <<PERSISTENCY_METADATA_FILE>>)
         days == IF previousMetadata # NoFile /\ "updatedAt" \in DOMAIN previousMetadata
                 THEN daysSince(previousMetadata.updatedAt, Now)
                 ELSE 0
         agentSteps == variant # "seed"
         go == /\ loc' = [loc EXCEPT !.daysSinceUpdate = days,
                                     !.aiCmd = IF opts.aiCmd \in {Undefined, ""}
                                               THEN opts.agent ELSE opts.aiCmd]
               /\ pc' = IF variant = "recreate" THEN "backup" ELSE "analyze"
               /\ UNCHANGED exitCode
     IN IF ~opts.gitRepo THEN Throw(Err("GitRepoError", {}), "preflight")
        ELSE IF agentSteps /\ ~opts.cliFound
          THEN Throw(Err("Error", {"Missing", "CLI"}), "preflight")
        ELSE IF agentSteps /\ ~opts.authFound
          THEN Throw(Err("Error", {"Missing", "authentication", "CLI"}), "preflight")
        ELSE IF variant = "strict" /\ ~pathExists(disk, loc.P)
          THEN Exit(EXIT_CODES.INVALID_ARGS, "preflight")
        ELSE IF variant = "strict" /\ opts.nonInteractive /\ ~opts.yes
          THEN Exit(EXIT_CODES.INVALID_ARGS, "preflight")
        ELSE IF variant = "strict" /\ ~proceed(opts)
          THEN Exit(EXIT_CODES.GENERIC_FAILURE, "preflight")
        ELSE go
  /\ UNCHANGED <<writers, variant, disk, origin, snap0, clock, runs, plan, opts, wlog>>

\* the analysis of the layer made once the base layout is in place
AnalyzeLayoutLate ==
  /\ pc = "analyze"
  /\ loc' = [loc EXCEPT !.layout = analyzePersistencyLayout(ensureBaseLayout(disk, loc.P), loc.P),
                        !.legacySources = <<IF loc.P = <<>> THEN <<".">> ELSE loc.P>>]
  /\ pc' = "backup"
  /\ UNCHANGED <<writers, variant, disk, origin, snap0, clock, runs, plan, opts, wlog, exitCode>>
\* const layoutSnapshot = await analyzePersistencyLayout(persistencyPath)
AnalyzeLayout ==
  /\ pc = "analyze"
  /\ loc' = [loc EXCEPT !.layout = analyzePersistencyLayout(disk, loc.P),
                        !.legacySources = <<IF loc.P = <<>> THEN <<".">> ELSE loc.P>>]
  /\ pc' = "backup"
  /\ UNCHANGED <<writers, variant, disk, origin, snap0, clock, runs, plan, opts, wlog, exitCode>>

Backup ==
  /\ pc = "backup"
  /\ IF ~opts.force /\ opts.keepBackup
     THEN LET io == IF opts.fault = "backup.mkdir" THEN "mkdir"
                    ELSE IF opts.fault = "backup.cp" THEN "cp" ELSE "ok"
              r == backupExistingLayer(disk, loc.P, Stamp(clock), io)
          IN /\ disk' = r.fs
             /\ IF r.threw THEN Throw(IOError, "backup")
                ELSE /\ loc' = [loc EXCEPT
                                  !.backupPath = r.backupDir,
                                  !.legacySources = IF r.backupDir = NoPath THEN @
                                                    ELSE Append(@, r.backupDir)]
                     /\ pc' = "layout"
                     /\ UNCHANGED exitCode
     ELSE /\ pc' = "layout"
          /\ UNCHANGED <<disk, loc, exitCode>>
  /\ UNCHANGED <<writers, variant, origin, snap0, clock, runs, plan, opts, wlog>>

\* (src/cli.ts only: fs.rm of the layer, then) ensureBaseLayout
EnsureLayout ==
  /\ pc = "layout"
  /\ LET fs0 == IF variant = "recreate" THEN rm(disk, loc.P) ELSE disk
     IN IF opts.fault = "layout"
        THEN /\ disk' = fs0
             /\ Throw(IOError, "layout")
        ELSE /\ disk' = IF variant = "recreate" THEN ensureBaseLayoutV1(fs0, loc.P)
                        ELSE ensureBaseLayout(fs0, loc.P)
             /\ pc' = "legacy"
             /\ UNCHANGED <<loc, exitCode>>
  /\ UNCHANGED <<writers, variant, origin, snap0, clock, runs, plan, opts, wlog>>

\* a warning on the console: what could not be done, and the path it names
Warning(about, path) == [about |-> about, path |-> path]
\* the import of --prev-layer without the try/catch around it: a failure
\* reaches the catch handler of the command
StageLegacyFatal ==
  /\ pc = "legacy"
  /\ IF opts.prevLayer # NoPath
     THEN LET prev == opts.prevLayer
              legacyDir == loc.P \o <<"ai-meta", "legacy", Stamp(clock)>>
              fs1 == mkdir(disk, legacyDir)
          IN IF ~access(disk, prev)
             THEN /\ Throw(IOError, "legacy")
                  /\ UNCHANGED disk
             ELSE IF opts.fault = "legacy.cp" \/ IsPrefix(prev, legacyDir)
             THEN /\ Throw(IOError, "legacy")
                  /\ disk' = fs1
             ELSE /\ loc' = [loc EXCEPT !.legacySources = Append(@, legacyDir),
                                        !.legacyDir = legacyDir]
                  /\ disk' = cp(fs1, prev, legacyDir)
                  /\ pc' = "assets"
                  /\ UNCHANGED exitCode
     ELSE /\ pc' = "assets"
          /\ UNCHANGED <<disk, loc, exitCode>>
  /\ UNCHANGED <<writers, variant, origin, snap0, clock, runs, plan, opts, wlog>>
\* the import of --prev-layer; every failure is reduced to a warning
StageLegacy ==
  /\ pc = "legacy"
  /\ IF opts.prevLayer # NoPath
     THEN LET prev == opts.prevLayer
              legacyDir == loc.P \o <<"ai-meta", "legacy", Stamp(clock)>>
              fs1 == mkdir(disk, legacyDir)
          IN IF ~access(disk, prev)
             THEN /\ loc' = [loc EXCEPT !.warnings = @ \cup {Warning("prev-layer", prev)}]
                  /\ UNCHANGED disk
             ELSE IF opts.fault = "legacy.cp" \/ IsPrefix(prev, legacyDir)
             THEN /\ loc' = [loc EXCEPT !.warnings = @ \cup {Warning("prev-layer", prev)}]
                  /\ disk' = fs1
             ELSE /\ loc' = [loc EXCEPT !.legacySources = Append(@, legacyDir),
                                        !.legacyDir = legacyDir]
                  /\ disk' = cp(fs1, prev, legacyDir)
     ELSE UNCHANGED <<disk, loc>>
  /\ pc' = "assets"
  /\ UNCHANGED <<writers, variant, origin, snap0, clock, runs, plan, opts, wlog, exitCode>>

\* the assets whose copy raises: the first one under the fault "asset.cp"
failingAssets ==
  IF opts.fault = "asset.cp" /\ opts.assets # <<>> THEN {Head(opts.assets)} ELSE {}
CopyAssets ==
  /\ pc = "assets"
  /\ LET r == copyAssets(disk, opts.assets, loc.P, failingAssets)
     IN /\ disk' = r.fs
        /\ loc' = [loc EXCEPT !.copiedAssets = r.copied,
                              !.warnings = @ \cup r.warned]
  /\ pc' = "foundations"
  /\ UNCHANGED <<writers, variant, origin, snap0, clock, runs, plan, opts, wlog, exitCode>>

\* what fs.writeFile leaves of a file when it is cut short: the file is
\* there, its content is not the content given
Torn == [kind |-> "torn"]
\* the write requests of a stage, made in order until the one that raises
\* (fault "<stage>.first": the first one, "<stage>.last": the last one,
\* "<stage>.torn": the first one that reaches fs.writeFile, which is cut
\* short)
Attempt(fs, ws, stage) ==
  LET writes == {j \in 1..Len(ws) : ws[j].force \/ ~access(fs, ws[j].path)}
      torn == opts.fault = stage \o ".torn" /\ writes # {}
      cut == CHOOSE j \in writes : \A i \in writes : j <= i
      k == IF opts.fault = stage \o ".first" THEN 0
           ELSE IF opts.fault = stage \o ".last" THEN Len(ws) - 1
           ELSE IF torn THEN cut - 1
           ELSE Len(ws)
      r == writeAll(fs, SubSeq(ws, 1, k), <<>>)
  IN [fs |-> IF torn
             THEN writeFile(mkdir(r.fs, Dirname(ws[cut].path)), ws[cut].path, Torn)
             ELSE r.fs,
      log |-> r.log, threw |-> k < Len(ws)]

briefPath == loc.P \o <<"ai-meta", "migration-brief.mdc">>
briefContext ==
  [projectName |-> loc.projectName, agent |-> opts.agent,
   existingLayer |-> existingLayerRel,
   sources |-> Tail(loc.legacySources),
   intakeNotes |-> loc.intakeNotes,
   referencedExtras |-> loc.layout.referencedExtras,
   unreferencedExtras |-> loc.layout.unreferencedExtras,
   missingCanonicalDirs |-> loc.layout.missingCanonicalDirs]
promptContext ==
  [projectName |-> loc.projectName, agent |-> opts.agent, layout |-> loc.layout,
   intakeNotes |-> loc.intakeNotes, migrationBriefRelPath |-> briefPath]

\* writeDomainFoundations, writeBootstrap, writeConfigEnv, writeAntiDriftScripts
\* (src/cli.ts: after writeSnapshotFile)
WriteFoundations ==
  /\ pc = "foundations"
  /\ LET config == writeConfigEnv(Options, loc.P, opts.force, loc.aiCmd)
                   \o writeAntiDriftScripts(Relative(loc.P), opts.force)
         ws == IF variant = "recreate"
               THEN writeDomainFoundationsV1(Options, loc.P, opts.force)
                    \o writeBootstrapV1(Options, loc.P, Metrics, currentBranch,
                                        snapshotFile(loc.P, opts.truthCommit), opts.force)
                    \o (IF opts.writeConfig \/ opts.yes THEN config ELSE <<>>)
               ELSE writeDomainFoundations(Options, loc.P, opts.force)
                    \o writeBootstrap(Options, loc.P, Metrics, currentBranch,
                                      opts.truthCommit, opts.force)
                    \o (IF variant = "seed" \/ opts.writeConfig \/ opts.yes
                        THEN config ELSE <<>>)
         fs0 == IF variant = "recreate"
                THEN writeFile(mkdir(disk, loc.P \o DEFAULT_SNAPSHOT_DIR),
                               snapshotFile(loc.P, opts.truthCommit),
                               [kind |-> "snapshot", commit |-> opts.truthCommit])
                ELSE disk
         r == Attempt(fs0, ws, "foundations")
     IN /\ disk' = r.fs
        /\ wlog' = wlog \o r.log
        /\ IF r.threw THEN Throw(IOError, "foundations")
           ELSE pc' = "artifacts" /\ UNCHANGED <<loc, exitCode>>
  /\ UNCHANGED <<writers, variant, origin, snap0, clock, runs, plan, opts>>

\* writeStartScript, writeUpsertScript, writeMigrationBrief, writeUpsertPrompt
\* (src/cli.ts: writeStartScript, writeLegacyImportManifest)
WriteRunArtifacts ==
  /\ pc = "artifacts"
  /\ LET ws == IF variant = "recreate"
               THEN writeStartScriptV1(loc.P, loc.aiCmd, opts.force)
                    \o writeLegacyImportManifest(loc.P, loc.legacySources)
               ELSE writeStartScript(loc.P, loc.aiCmd, opts.force)
                    \o writeUpsertScript(loc.P, loc.aiCmd, opts.force)
                    \o writeMigrationBrief(loc.P, briefContext)
                    \o writeUpsertPrompt(existingLayerRel, promptContext)
         r == Attempt(disk, ws, "artifacts")
     IN /\ disk' = r.fs
        /\ wlog' = wlog \o r.log
        /\ IF r.threw THEN Throw(IOError, "artifacts")
           ELSE pc' = "metadata" /\ UNCHANGED <<loc, exitCode>>
  /\ UNCHANGED <<writers, variant, origin, snap0, clock, runs, plan, opts>>

\* the record of the run, and writeMetadata: the record, then the pointer file
WriteMetadata ==
  /\ pc = "metadata"
  /\ LET sources == IF variant = "recreate"
                    THEN (IF Len(loc.legacySources) > 0 THEN loc.legacySources ELSE NoSources)
                    ELSE (IF Len(loc.legacySources) > 1 THEN Tail(loc.legacySources)
                          ELSE NoSources)
         o == IF variant = "recreate" THEN [Options EXCEPT !.intakeNotes = <<>>] ELSE Options
         metadata == MetadataDoc(o, loc.P, currentBranch, opts.truthCommit, Now,
                                 loc.copiedAssets, sources, Metrics)
         r == writeAll(disk, <<W(loc.P \o <<PERSISTENCY_METADATA_FILE>>, metadata, TRUE)>>, <<>>)
         pointer == writeFile(r.fs, <<PERSISTENCY_POINTER_FILE>>,
                              PointerText(pointerValue(loc.P, metadata)))
     IN IF opts.fault = "metadata"
        THEN /\ Throw(IOError, "metadata")
             /\ UNCHANGED <<disk, wlog>>
        ELSE IF opts.fault = "pointer" /\ variant # "recreate"
        THEN /\ disk' = r.fs
             /\ wlog' = wlog \o r.log
             /\ pc' = "failed"
             /\ exitCode' = catchHandler(IOError)
             /\ loc' = [loc EXCEPT !.failedStage = "metadata", !.metadata = metadata,
                                   !.metaWritten = TRUE]
        ELSE /\ disk' = IF variant = "recreate" THEN r.fs ELSE pointer
             /\ wlog' = wlog \o r.log
             /\ loc' = [loc EXCEPT !.metadata = metadata, !.metaWritten = TRUE]
             /\ pc' = "log"
             /\ UNCHANGED exitCode
  /\ UNCHANGED <<writers, variant, origin, snap0, clock, runs, plan, opts>>

\* fs.appendFile of `[timestamp] message`
writeLogEntry(fs, P, stamp, message) ==
  LET logPath == P \o <<DEFAULT_LOG_FILE>>
      old == IF logPath \in DOMAIN fs.f /\ fs.f[logPath].kind = "log"
             THEN fs.f[logPath].lines ELSE <<>>
  IN writeFile(fs, logPath, [kind |-> "log", lines |-> Append(old, <<stamp, message>>)])

\* --log-history: two entries are appended; otherwise the log is removed.
\* This is the end of run: process.exitCode = EXIT_CODES.SUCCESS
LogHistory ==
  /\ pc = "log"
  /\ IF opts.fault = "log"
     THEN /\ Throw(IOError, "log")
          /\ UNCHANGED disk
     ELSE /\ disk' = IF opts.logHistory
                     THEN LET fs1 == writeLogEntry(disk, loc.P, Stamp(clock), "refreshed")
                          IN IF Len(loc.legacySources) > 0
                             THEN writeLogEntry(fs1, loc.P, Stamp(clock), "legacy-sources")
                             ELSE fs1
                     ELSE rm(disk, loc.P \o <<DEFAULT_LOG_FILE>>)
          /\ pc' = "done"
          /\ exitCode' = EXIT_CODES.SUCCESS
          /\ UNCHANGED loc
  /\ UNCHANGED <<writers, variant, origin, snap0, clock, runs, plan, opts, wlog>>


Init ==
  \E sc \in Scenarios :
    /\ variant = sc.variant
    /\ disk = sc.disk
    /\ origin = sc.disk
    /\ snap0 = sc.disk
    /\ plan = sc.plan
    /\ clock = 1
    /\ runs = 0
    /\ pc = "idle"
    /\ opts = Base
    /\ loc = InitLoc
    /\ wlog = <<>>
    /\ exitCode = NoExit
    /\ writers = <<>>

Next ==
  \/ StartRun
  \/ ResolveOptions
  \/ Preflight
  \/ AnalyzeLayout
  \/ Backup
  \/ EnsureLayout
  \/ StageLegacy
  \/ CopyAssets
  \/ WriteFoundations
  \/ WriteRunArtifacts
  \/ WriteMetadata
  \/ LogHistory

Spec == Init /\ [][Next]_vars

(***************************************************************************)
(* Two runs at the same time on one layer: the conditional writes of       *)
(* writeDomainFoundations, one step per await of safeWriteFile              *)
(***************************************************************************)
Procs == {1, 2}
\* the project names the two runs are given
RaceNames == <<"sample", "other">>
RaceLayer == <<"custom-ai">>
\* the layer is absent, hand-made in part, or managed
RaceDisks == {BaseDisk, PartialLayer(BaseDisk, RaceLayer), ManagedDisk}
RaceOptions(i) == [EarlierOptions EXCEPT !.projectName = RaceNames[i]]
\* the variables of the single run, which two runs at the same time leave alone
runState == <<variant, origin, snap0, clock, runs, plan, pc, opts, loc, exitCode>>

RaceInit ==
  /\ variant = "seed"
  /\ disk \in RaceDisks
  /\ origin = disk
  /\ snap0 = disk
  /\ plan = <<>>
  /\ clock = 1
  /\ runs = 0
  /\ pc = "idle"
  /\ opts = Base
  /\ loc = InitLoc
  /\ wlog = <<>>
  /\ exitCode = NoExit
  /\ writers = [i \in Procs |->
                  [at |-> "mkdir",
                   todo |-> writeDomainFoundations(RaceOptions(i), RaceLayer, FALSE)]]

\* the call of safeWriteFile at the head of todo returns
Return(i, result) ==
  LET w == Head(writers[i].todo)
  IN /\ wlog' = Append(wlog, [run |-> i, path |-> w.path, content |-> w.content,
                               result |-> result])
     /\ writers' = [writers EXCEPT ![i] = [at |-> "mkdir", todo |-> Tail(writers[i].todo)]]

\* await fs.mkdir(dir, { recursive: true })
SafeWriteMkdir(i) ==
  /\ writers[i].at = "mkdir"
  /\ writers[i].todo # <<>>
  /\ disk' = mkdir(disk, Dirname(Head(writers[i].todo).path))
  /\ writers' = [writers EXCEPT ![i].at = "access"]
  /\ UNCHANGED <<runState, wlog>>

\* await fs.access(filePath), and the return of "skipped"
SafeWriteAccess(i) ==
  /\ writers[i].at = "access"
  /\ LET w == Head(writers[i].todo)
     IN IF access(disk, w.path)
        THEN IF ~w.force THEN Return(i, "skipped")
             ELSE writers' = [writers EXCEPT ![i].at = "update"] /\ UNCHANGED wlog
        ELSE writers' = [writers EXCEPT ![i].at = "create"] /\ UNCHANGED wlog
  /\ UNCHANGED <<runState, disk>>

\* await fs.writeFile(filePath, content, "utf8"), and the return of
\* "updated" or "created"
SafeWriteWrite(i) ==
  /\ writers[i].at \in {"create", "update"}
  /\ disk' = writeFile(disk, Head(writers[i].todo).path, Head(writers[i].todo).content)
  /\ Return(i, IF writers[i].at = "create" THEN "created" ELSE "updated")
  /\ UNCHANGED runState

RaceNext ==
  \E i \in Procs :
    \/ SafeWriteMkdir(i)
    \/ SafeWriteAccess(i)
    \/ SafeWriteWrite(i)

RaceSpec == RaceInit /\ [][RaceNext]_vars

(***************************************************************************)
(* Properties                                                              *)
(***************************************************************************)
LayerRoots == {<<"ai">>, <<"custom-ai">>, <<>>}
TemplateNames == {"foundation.mdc", "index.mdc", "migration-brief.mdc", "legacy-import.mdc"}
metadataPath == loc.P \o <<PERSISTENCY_METADATA_FILE>>
Succeeded == pc = "done"
Failed == pc = "failed"

\* C1: every call of safeWriteFile made by a run does exactly one of: the
\* target was absent, it now holds the supplied content and the result is
\* "created"; the target was present and force is unset, its content is
\* unchanged and the result is "skipped"; the target was present and force is
\* set, it now holds the supplied content and the result is "updated".
ConditionalWriteTrichotomy ==
  \A i \in 1..Len(wlog) :
    LET w == wlog[i]
    IN IF w.before = NoFile
       THEN w.result = "created" /\ w.after = w.content
       ELSE IF ~w.force
       THEN w.result = "skipped" /\ w.after = w.before
       ELSE w.result = "updated" /\ w.after = w.content
\* one run that made a call of each of the three kinds, the skipped and the
\* updated targets holding something else than the supplied content
ConditionalWriteCases ==
  /\ \E i \in 1..Len(wlog) : wlog[i].result = "created"
  /\ \E i \in 1..Len(wlog) : wlog[i].result = "skipped" /\ wlog[i].before # wlog[i].content
  /\ \E i \in 1..Len(wlog) : wlog[i].result = "updated" /\ wlog[i].before # wlog[i].content

\* C2: a hand-authored file that was, before the first run, inside
\* functional/, technical/ or ai-meta/ of a layer, under a name that is not a
\* template filename, is still there with the same content after any runs.
HandAuthoredPreserved ==
  \A p \in DOMAIN origin.f :
    (\E L \in LayerRoots :
        /\ IsPrefix(L, p)
        /\ Len(p) > Len(L) + 1
        /\ p[Len(L) + 1] \in Canonical
        /\ Basename(p) \notin TemplateNames)
    => p \in DOMAIN disk.f /\ disk.f[p] = origin.f[p]

\* C3: in the revisions that write index.mdc, no step of a run changes or
\* removes the index.mdc of a canonical domain once it exists.
IndexNeverOverwritten ==
  [][variant # "recreate" =>
       \A L \in LayerRoots, domain \in Canonical :
         LET p == L \o <<domain, "index.mdc">>
         IN p \in DOMAIN disk.f => p \in DOMAIN disk'.f /\ disk'.f[p] = disk.f[p]]_vars

\* C4: after a successful run the metadata record, the launcher(s), the
\* migration brief and the upsert prompt hold what this run generated from
\* its inputs, whatever they held before and with or without --force.
RunArtifactsCurrent ==
  Succeeded =>
    /\ Read(disk, metadataPath) = loc.metadata
    /\ loc.metadata.updatedAt = Now
    /\ loc.metadata.snapshotRef = opts.truthCommit
    /\ loc.metadata.projectName = loc.projectName
    /\ loc.metadata.persistencyDir = Relative(loc.P)
    /\ IF variant = "recreate"
       THEN Read(disk, loc.P \o <<DEFAULT_START_SCRIPT>>)
              = [kind |-> "start-v1", aiCmd |-> loc.aiCmd]
       ELSE /\ Read(disk, loc.P \o <<DEFAULT_START_SCRIPT>>) = StartScriptDoc(loc.aiCmd)
            /\ Read(disk, loc.P \o <<DEFAULT_UPSERT_SCRIPT>>) = UpsertScriptDoc(loc.aiCmd)
            /\ Read(disk, briefPath) = BriefDoc(briefContext)
            /\ Read(disk, <<UPSERT_PROMPT_FILE>>) = PromptDoc(existingLayerRel, promptContext)
\* a successful run without --force over a layer whose record, launchers,
\* brief and prompt all existed with other content
RunArtifactsReplaced ==
  /\ Succeeded
  /\ variant = "strict"
  /\ ~opts.force
  /\ Read(snap0, metadataPath) \notin {NoFile, loc.metadata}
  /\ Read(snap0, loc.P \o <<DEFAULT_START_SCRIPT>>) \notin {NoFile, StartScriptDoc(loc.aiCmd)}
  /\ Read(snap0, loc.P \o <<DEFAULT_UPSERT_SCRIPT>>) \notin {NoFile, UpsertScriptDoc(loc.aiCmd)}
  /\ Read(snap0, briefPath) \notin {NoFile, BriefDoc(briefContext)}
  /\ Read(snap0, <<UPSERT_PROMPT_FILE>>) \notin {NoFile, PromptDoc(existingLayerRel, promptContext)}

\* C5: once a run has written its metadata record it changes nothing else on
\* disk, and a run that ends in an error leaves no metadata record that
\* carries the updatedAt of that run.
MetadataWrittenLast ==
  /\ [][loc.metaWritten => disk' = disk]_vars
  /\ [](Failed /\ loc.P # NoPath =>
          LET record == Read(disk, metadataPath)
          IN record.kind = "meta" /\ "updatedAt" \in DOMAIN record =>
               record.updatedAt # Now)

\* C6: when ensureBaseLayout, the foundation writes or the run-artifact
\* writes fail, the run ends in the top-level handler (generic failure) and
\* the metadata record on disk is the one that was there when the run started.
FatalStageKeepsRecord ==
  Failed /\ loc.failedStage \in {"layout", "foundations", "artifacts"} =>
    /\ exitCode = EXIT_CODES.GENERIC_FAILURE
    /\ ~loc.metaWritten
    /\ Read(disk, metadataPath) = Read(snap0, metadataPath)

\* C7: a run given --keep-backup on an existing layer has, once its backup
\* stage is over, copied the whole layer to <project>/<basename>-backup/<stamp>
\* and recorded that path as a legacy source, whatever the other flags are.
BackupWhenRequested ==
  pc = "layout" /\ opts.keepBackup /\ access(snap0, loc.P) =>
    LET backupDir == <<BackupName(loc.P), Stamp(clock)>>
    IN /\ loc.backupPath = backupDir
       /\ Tree(disk, backupDir) = Tree(snap0, loc.P)
       /\ \E i \in 1..Len(loc.legacySources) : loc.legacySources[i] = backupDir

\* C8: when the backup stage is over and a backup was taken, the live layer
\* is still what it was when the run started; when the backup fails the run
\* is aborted and the live layer is what it was when the run started.
BackupBeforeMutation ==
  /\ pc = "layout" /\ loc.backupPath # NoPath => Tree(disk, loc.P) = Tree(snap0, loc.P)
  /\ Failed /\ loc.failedStage = "backup" => Tree(disk, loc.P) = Tree(snap0, loc.P)

\* C9: after a successful run of a revision that keeps the pointer file, the
\* pointer file holds exactly the relative directory of the layer of that
\* run; and the run that follows a successful run, given no
\* --persistency-dir, resolves to the layer of that run without prompting.
PointerConvergence ==
  /\ Succeeded /\ variant # "recreate" =>
       LET pointer == Read(disk, <<PERSISTENCY_POINTER_FILE>>)
       IN /\ pointer.kind = "text"
          /\ Trim(pointer.txt) = (IF loc.P = <<>> THEN <<>> ELSE <<Relative(loc.P)>>)
  /\ pc = "preflight" /\ variant # "recreate" /\ loc.prevDone
       /\ ~opts.persistencyDirProvided =>
       loc.P = loc.prevP /\ ~loc.prompted

\* C10: the directory applyMetadataDefaults resolves is the one named with
\* --persistency-dir if one was given, else the trimmed content of the
\* pointer file if that is not empty, else "ai"; the persistencyDir of a
\* metadata record never replaces either.
ResolutionOrder ==
  pc = "preflight" /\ variant # "recreate" /\ ~loc.prompted =>
    loc.P = ResolveDir(IF opts.persistencyDirProvided THEN opts.persistencyDir
                       ELSE Coalesce(readPersistencyPointer(disk), DEFAULT_PERSISTENCY_DIR))

\* the conditional-write artifacts of the layer of the current run
ConditionalPaths ==
  {loc.P \o <<domain, name>> : domain \in Canonical, name \in {"foundation.mdc", "index.mdc"}}
  \cup {loc.P \o <<DEFAULT_BOOTSTRAP_FILE>>, loc.P \o <<DEFAULT_CONFIG_FILE>>,
        <<"scripts", "ai", "check-stale.ts">>, <<"scripts", "ai", "refresh-layer.ts">>}
Rerun == Succeeded /\ loc.prevSame /\ ~opts.force /\ variant # "recreate"

Timeless(record) ==
  IF record.kind # "meta" THEN record
  ELSE [record EXCEPT !.updatedAt = 0, !.snapshotRef = Undefined, !.daysSinceUpdate = 0]

\* C12: when a successful run without --force follows a successful run with
\* the same inputs, the brief, the upsert prompt and the launchers it writes
\* equal those of the first run, and so does the metadata record but for its
\* time stamp and commit.
UnconditionalWritesIdempotent ==
  Rerun =>
    /\ Read(disk, briefPath) = Read(snap0, briefPath)
    /\ Read(disk, <<UPSERT_PROMPT_FILE>>) = Read(snap0, <<UPSERT_PROMPT_FILE>>)
    /\ Read(disk, loc.P \o <<DEFAULT_START_SCRIPT>>) = Read(snap0, loc.P \o <<DEFAULT_START_SCRIPT>>)
    /\ Read(disk, loc.P \o <<DEFAULT_UPSERT_SCRIPT>>) = Read(snap0, loc.P \o <<DEFAULT_UPSERT_SCRIPT>>)
    /\ Timeless(Read(disk, metadataPath)) = Timeless(Read(snap0, metadataPath))

Analysed == pc = "backup" /\ variant # "recreate"
bootstrapText == Read(disk, loc.P \o <<DEFAULT_BOOTSTRAP_FILE>>)

\* C14: the analysis of a layer puts into extraDirectories exactly the
\* immediate subdirectories that are not canonical, not hidden and not
\* node_modules; an extra directory is in referencedExtras if the bootstrap
\* document exists and contains its name, in unreferencedExtras if not; the
\* two sets are disjoint and their union is extraDirectories.
ExtrasPartitioned ==
  Analysed =>
    LET layout == loc.layout
    IN /\ layout.extraDirectories =
            {dir \in Subdirectories(disk, loc.P) :
               dir \notin {"functional", "technical", "ai-meta", "node_modules"}
               /\ dir \notin DotNames}
       /\ \A dir \in layout.extraDirectories :
            /\ dir \in layout.referencedExtras
                 <=> bootstrapText # NoFile /\ Includes(bootstrapText, dir)
            /\ dir \in layout.unreferencedExtras
                 <=> ~(bootstrapText # NoFile /\ Includes(bootstrapText, dir))
       /\ layout.referencedExtras \cap layout.unreferencedExtras = {}
       /\ layout.referencedExtras \cup layout.unreferencedExtras = layout.extraDirectories
\* an analysed layer with a referenced and an unreferenced extra directory,
\* a hidden directory and node_modules
ExtrasOfBothKinds ==
  /\ Analysed
  /\ loc.layout.referencedExtras # {}
  /\ loc.layout.unreferencedExtras # {}
  /\ {".cache", "node_modules"} \subseteq Subdirectories(disk, loc.P)

\* C15: missingCanonicalDirs is exactly the set of canonical names that are
\* not immediate subdirectories of the layer, whatever extra directories
\* exist; for a layer path that does not exist the analysis has no
\* directories, no extras and all three canonical names missing.
MissingCanonicalExact ==
  Analysed =>
    LET layout == loc.layout
    IN /\ layout.missingCanonicalDirs =
            {"functional", "technical", "ai-meta"} \ Subdirectories(disk, loc.P)
       /\ loc.P \notin disk.d =>
            /\ layout.directories = {}
            /\ layout.extraDirectories = {}
            /\ layout.referencedExtras = {}
            /\ layout.unreferencedExtras = {}
            /\ layout.missingCanonicalDirs = {"functional", "technical", "ai-meta"}
\* an analysed layer with extra directories and some canonical directory
\* present, some missing
MissingBesideExtras ==
  /\ Analysed
  /\ loc.layout.extraDirectories # {}
  /\ loc.layout.missingCanonicalDirs = {"technical", "ai-meta"}

Listed(path, list) == \E i \in 1..Len(list) : list[i] = path
\* the assets of the current run that exist and whose copy does not raise
copyable == SelectSeq(opts.assets, LAMBDA asset : access(disk, asset) /\ asset \notin failingAssets)

\* C16: copyAssets never raises (the run goes on to the next stage); the
\* returned list holds, in input order, the staged path under ai-meta/assets
\* of each asset whose source exists and copies, and each of them is on disk;
\* an asset that is missing or fails to copy gives a warning and no entry,
\* and the assets after it are still processed.
AssetsBestEffort ==
  [][pc = "assets" =>
       /\ pc' = "foundations"
       /\ loc'.copiedAssets =
            [i \in 1..Len(copyable) |->
               loc.P \o <<"ai-meta", "assets", Basename(copyable[i])>>]
       /\ \A i \in 1..Len(loc'.copiedAssets) : access(disk', loc'.copiedAssets[i])
       /\ \A i \in 1..Len(opts.assets) :
            [about |-> "asset", path |-> opts.assets[i]] \in loc'.warnings
              <=> ~Listed(opts.assets[i], copyable)]_vars
\* an asset staged after an asset of the same list that could not be copied
AssetStagedAfterFailure ==
  /\ pc = "foundations"
  /\ Len(opts.assets) = 2
  /\ ~access(snap0, opts.assets[1]) \/ opts.fault = "asset.cp"
  /\ loc.copiedAssets = <<loc.P \o <<"ai-meta", "assets", Basename(opts.assets[2])>>>>
  /\ access(disk, loc.copiedAssets[1])
  /\ [about |-> "asset", path |-> opts.assets[1]] \in loc.warnings

\* the files of the tree under src are under dst, with the same content
CopiedInto(before, src, after, dst) ==
  /\ dst \in after.d
  /\ \A q \in DOMAIN before.f :
       IsPrefix(src, q) => Read(after, Rebase(q, src, dst)) = before.f[q]
\* the timestamped directories under ai-meta/legacy of the layer
LegacyDirs ==
  {loc.P \o <<"ai-meta", "legacy", StampNames[i]>> : i \in 1..Len(StampNames)}

\* C17: a run given a previous-layer path that exists copies its tree into a
\* new directory ai-meta/legacy/<timestamp> of the layer, and that directory
\* is in the legacySources of the metadata record the run writes and in the
\* sources of its migration brief.
PrevLayerStaged ==
  Succeeded /\ variant # "recreate" /\ opts.prevLayer # NoPath /\ access(snap0, opts.prevLayer) =>
    \E dir \in LegacyDirs :
      /\ dir \notin snap0.d
      /\ CopiedInto(snap0, opts.prevLayer, disk, dir)
      /\ Listed(dir, Read(disk, metadataPath).legacySources)
      /\ Listed(dir, Read(disk, briefPath).sources)

\* the current run has passed the import of a previous layer that does not
\* exist or could not be copied (I/O error, or the layer lies inside it)
ImportFailed ==
  /\ opts.prevLayer # NoPath
  /\ \/ pc \in {"assets", "foundations", "artifacts", "metadata", "log", "done"}
     \/ pc = "failed" /\ loc.failedStage \notin {"resolve", "preflight", "backup", "layout"}
  /\ \/ ~access(snap0, opts.prevLayer)
     \/ opts.fault = "legacy.cp"
     \/ IsPrefix(opts.prevLayer, loc.P)

\* C18: when the previous-layer path given to a run does not exist or its
\* copy fails, the run gives a warning that names the path, adds no staged
\* directory to legacySources, does not fail in any later stage, and ends
\* with the later stages' files and the metadata record written and exit
\* code 0.
PrevLayerFailureTolerated ==
  ImportFailed =>
    /\ Warning("prev-layer", opts.prevLayer) \in loc.warnings
    /\ \A dir \in LegacyDirs : ~Listed(dir, loc.legacySources)
    /\ pc # "failed"
    /\ Succeeded =>
         /\ exitCode = EXIT_CODES.SUCCESS
         /\ \E i \in 1..Len(wlog) : wlog[i].path = loc.P \o <<DEFAULT_BOOTSTRAP_FILE>>
         /\ variant # "recreate" => \E i \in 1..Len(wlog) : wlog[i].path = briefPath
         /\ Read(disk, metadataPath) = loc.metadata
         /\ loc.metadata.updatedAt = Now
         /\ \A dir \in LegacyDirs : ~Listed(dir, loc.metadata.legacySources)
\* a finished run whose previous-layer path did not exist
MissingPrevLayerRunDone ==
  /\ Succeeded
  /\ ImportFailed
  /\ ~access(snap0, opts.prevLayer)
  /\ exitCode = EXIT_CODES.SUCCESS
  /\ Warning("prev-layer", opts.prevLayer) \in loc.warnings

\* the record the current run found beside its layer when it started
previousRecord == readExistingMetadata(snap0, metadataPath)
\* the freshness of the previous record has been computed
FreshnessKnown ==
  pc \in {"analyze", "backup", "layout", "legacy", "assets", "foundations",
          "artifacts", "metadata", "log", "done"}

\* C19: daysSinceUpdate is the whole number of days from the updatedAt of
\* the previous record to now, 0 when updatedAt is not in the past, when
\* there is no previous record and when the record has no updatedAt;
\* commitsSinceTruth is the commit distance the caller supplied, in the
\* result of computeFreshnessMetrics and in the record the run writes.
FreshnessExact ==
  FreshnessKnown =>
    LET days == loc.daysSinceUpdate
        dated == previousRecord # NoFile /\ "updatedAt" \in DOMAIN previousRecord
    IN /\ days \in Nat
       /\ ~dated => days = 0
       /\ dated /\ previousRecord.updatedAt >= Now => days = 0
       /\ dated /\ previousRecord.updatedAt < Now =>
            /\ 2 * days <= Now - previousRecord.updatedAt
            /\ Now - previousRecord.updatedAt < 2 * (days + 1)
       /\ computeFreshnessMetrics(snap0, metadataPath, opts.commits, Now)
            = [daysSinceUpdate |-> days, commitsSinceTruth |-> opts.commits]
       /\ Succeeded =>
            /\ Read(disk, metadataPath).daysSinceUpdate = days
            /\ Read(disk, metadataPath).commitsSinceTruth = opts.commits
\* a run that found a record two and a half days old, and counts two days
RecordOfTwoDays ==
  /\ Succeeded
  /\ "updatedAt" \in DOMAIN previousRecord
  /\ Now - previousRecord.updatedAt = 5
  /\ loc.daysSinceUpdate = 2

\* a precondition of the strict revision does not hold for the current
\* run: the project is no Git repository, a required parameter is missing
\* in non-interactive mode, the layer directory does not exist, or the mode
\* is non-interactive without --yes
PreconditionFails ==
  /\ variant = "strict"
  /\ pc # "idle"
  /\ \/ ~opts.gitRepo
     \/ Failed /\ loc.failedStage = "resolve"
     \/ loc.P # NoPath /\ ~access(snap0, loc.P)
     \/ opts.nonInteractive /\ ~opts.yes

\* C20: in the strict revision a run whose precondition fails ends, with an
\* exit code other than 0, before it has created, changed or deleted any
\* file or directory under the project root; it enters no stage after the
\* checks.
PreconditionFailureWritesNothing ==
  PreconditionFails =>
    /\ disk = snap0
    /\ wlog = <<>>
    /\ pc \in {"resolve", "preflight", "failed"}
    /\ Failed => exitCode \notin {NoExit, EXIT_CODES.SUCCESS}
\* a strict run stopped because the layer directory does not exist
StoppedWithoutLayer ==
  /\ variant = "strict"
  /\ Failed
  /\ opts.gitRepo /\ opts.yes
  /\ loc.P # NoPath /\ ~access(snap0, loc.P)
  /\ exitCode = EXIT_CODES.INVALID_ARGS
  /\ disk = snap0

\* the documented exit code of the way the current run ended (README, Exit
\* Codes): the class of a failure is the check or stage that raised it
DocumentedExitCode ==
  IF Succeeded THEN 0
  ELSE IF loc.failedStage = "resolve" THEN 5
  ELSE IF loc.failedStage # "preflight" THEN 1
  ELSE IF ~opts.gitRepo THEN 2
  ELSE IF variant # "seed" /\ ~opts.cliFound THEN 3
  ELSE IF variant # "seed" /\ ~opts.authFound THEN 4
  ELSE IF variant = "strict" /\ ~access(snap0, loc.P) THEN 5
  ELSE IF variant = "strict" /\ opts.nonInteractive /\ ~opts.yes THEN 5
  ELSE 1

\* C21: every run ends with the documented exit code of its class: 2 when
\* the project is not a Git repository, 3 when the agent CLI is missing, 4
\* when ensureAgentAuth finds no authentication, 5 for missing required
\* arguments or a missing layer, 1 for any other failure, 0 for success.
ExitCodeOfClass == Succeeded \/ Failed => exitCode = DocumentedExitCode

\* the lines of the intake notes of the current run that are not blank
noteLines == SelectSeq(loc.intakeNotes, LAMBDA line : line \notin {"", " "})
\* the brief and the prompt the current run has written
writtenBrief == Read(disk, briefPath)
writtenPrompt == Read(disk, <<UPSERT_PROMPT_FILE>>)

\* C22: the upsert prompt a run writes holds the relative path of the
\* migration brief, the path <layer>/<dir> of each canonical directory and
\* of each extra directory the layout analysis found; the brief and the
\* prompt hold one bullet per non-blank line of the intake notes, or the
\* placeholder bullet when there is none; both are the texts of the context
\* of this run, whatever was in the files before.
PromptEchoesContext ==
  Succeeded /\ variant # "recreate" =>
    /\ writtenPrompt.migrationBrief = briefPath
    /\ \A dir \in {"functional", "technical", "ai-meta"} :
         <<existingLayerRel, dir>> \in writtenPrompt.canonicalPaths
    /\ \A dir \in loc.layout.extraDirectories :
         <<existingLayerRel, dir>> \in writtenPrompt.existingExtras
    /\ \A doc \in {writtenBrief, writtenPrompt} :
         IF noteLines = <<>>
         THEN doc.notes = <<"_(no supplemental notes provided)_">>
         ELSE doc.notes = noteLines
    /\ writtenBrief = BriefDoc(briefContext)
    /\ writtenPrompt = PromptDoc(existingLayerRel, promptContext)
\* a finished run with two note lines around a blank one, on a layer with
\* extra directories and a prompt of an earlier run
PromptWithNotesAndExtras ==
  /\ Succeeded /\ variant # "recreate"
  /\ Len(loc.intakeNotes) = 3 /\ Len(noteLines) = 2
  /\ loc.layout.extraDirectories # {}
  /\ writtenPrompt.notes = noteLines

\* the migration of the current run is confirmed: --yes, or the answer yes
\* to the confirmation prompt, which is asked in interactive mode only
Confirmed == opts.yes \/ (~opts.nonInteractive /\ opts.confirm)
\* the user was asked to confirm and declined
Declined ==
  /\ Failed /\ loc.failedStage = "preflight"
  /\ opts.gitRepo /\ opts.cliFound /\ opts.authFound
  /\ access(snap0, loc.P)
  /\ ~opts.yes /\ ~opts.nonInteractive /\ ~opts.confirm

\* C23: a strict run that is not confirmed by --yes or by a positive answer
\* to the confirmation prompt creates, changes and deletes nothing in the
\* layer (nor elsewhere in the project) and enters no writing stage; when
\* the user declines, the run ends with exit code 1.
NoWriteWithoutConfirmation ==
  variant = "strict" /\ pc # "idle" =>
    /\ ~Confirmed =>
         /\ disk = snap0
         /\ wlog = <<>>
         /\ pc \in {"resolve", "preflight", "failed"}
    /\ Declined => exitCode = EXIT_CODES.GENERIC_FAILURE /\ Tree(disk, loc.P) = Tree(snap0, loc.P)
\* a strict run on an existing layer that ended because the user declined
DeclinedRun ==
  /\ variant = "strict"
  /\ Declined
  /\ exitCode = EXIT_CODES.GENERIC_FAILURE
  /\ loc.P \in disk.d

\* the analysis of the layer as it was when the current run started
preRunLayout == analyzePersistencyLayout(snap0, loc.P)

\* C24: the layout analysis of a run is made on the disk as the run found
\* it: when the analysis is done nothing has been written, and the lists of
\* missing canonical directories and of extra directories in the brief and
\* the prompt are those of the layer before the run, not those of an
\* earlier run.
LayoutAnalysedBeforeWrites ==
  variant # "recreate" =>
    /\ pc = "backup" => disk = snap0 /\ wlog = <<>>
    /\ pc \in {"backup", "layout", "legacy", "assets", "foundations", "artifacts",
               "metadata", "log", "done"} => loc.layout = preRunLayout
    /\ Succeeded =>
         /\ writtenBrief.missingCanonical = preRunLayout.missingCanonicalDirs
         /\ writtenBrief.referencedExtras = preRunLayout.referencedExtras
         /\ writtenBrief.unreferencedExtras = preRunLayout.unreferencedExtras
         /\ writtenPrompt.missingCanonical = preRunLayout.missingCanonicalDirs
         /\ writtenPrompt.existingExtras =
              {<<existingLayerRel, dir>> : dir \in preRunLayout.extraDirectories}
\* a second run on a layer whose missing canonical directories the first
\* run created: its brief lists none as missing
SecondRunAnalysedAfresh ==
  /\ Succeeded /\ variant # "recreate"
  /\ loc.prevDone /\ loc.prevP = loc.P
  /\ analyzePersistencyLayout(origin, loc.P).missingCanonicalDirs # {}
  /\ writtenBrief.missingCanonical = {}

\* the current run has completed after a run with the same inputs that was
\* cut short, and is not forced; origin is the disk before the run cut short
Recovered == Succeeded /\ loc.prevCut /\ ~opts.force /\ variant # "recreate"
\* the layout a run on the disk before the run cut short analyses
uncutLayout == analyzePersistencyLayout(origin, loc.P)

\* C25: when a run is cut short and the tool is run again to completion
\* with the same inputs and no --force, every conditionally written file
\* holds what an uninterrupted run leaves there (the content it had before,
\* or else the generated content), and every unconditionally written file
\* holds what an uninterrupted run writes (the scripts of the command, the
\* brief and the prompt with the findings on the layer before the runs).
RerunRecoversCutRun ==
  Recovered =>
    /\ \A i \in 1..Len(wlog) :
         ~wlog[i].force =>
           Read(disk, wlog[i].path) =
             IF Read(origin, wlog[i].path) # NoFile THEN Read(origin, wlog[i].path)
             ELSE wlog[i].content
    /\ Read(disk, loc.P \o <<DEFAULT_START_SCRIPT>>) = StartScriptDoc(loc.aiCmd)
    /\ Read(disk, loc.P \o <<DEFAULT_UPSERT_SCRIPT>>) = UpsertScriptDoc(loc.aiCmd)
    /\ writtenBrief.missingCanonical = uncutLayout.missingCanonicalDirs
    /\ writtenBrief.referencedExtras = uncutLayout.referencedExtras
    /\ writtenBrief.unreferencedExtras = uncutLayout.unreferencedExtras
    /\ writtenPrompt.missingCanonical = uncutLayout.missingCanonicalDirs

\* C26: the backup a run takes goes to a directory that did not exist
\* before the run, so the backups of two runs are in two directories and the
\* files of the earlier backup stay as they were.
BackupsNeverCollide ==
  loc.backupPath # NoPath /\ variant # "recreate" =>
    /\ loc.backupPath \notin snap0.d
    /\ \A p \in DOMAIN snap0.f :
         (\E stamp \in 1..Len(StampNames) : IsPrefix(<<BackupName(loc.P), StampNames[stamp]>>, p))
           => Read(disk, p) = snap0.f[p]

\* the calls of safeWriteFile, of either run, that returned "created" for p
Creations(p) == {k \in 1..Len(wlog) : wlog[k].path = p /\ wlog[k].result = "created"}

\* C27: nothing keeps two runs at the same time apart: a run that found a
\* path absent writes it and reports "created" whatever the other run did
\* in between, so a file reported as created holds the content of the run
\* that created it last, and the content of an earlier creation is lost.
LastCreationWins ==
  \A k \in 1..Len(wlog) :
    wlog[k].result = "created" /\ (\A j \in Creations(wlog[k].path) : j <= k)
      => Read(disk, wlog[k].path) = wlog[k].content
\* both runs have reported "created" for the same path, with different
\* contents, and the file holds the content of one of them only
BothCreated ==
  \E j, k \in 1..Len(wlog) :
    /\ j < k
    /\ wlog[j].path = wlog[k].path
    /\ wlog[j].run # wlog[k].run
    /\ wlog[j].result = "created" /\ wlog[k].result = "created"
    /\ wlog[j].content # wlog[k].content
    /\ Read(disk, wlog[k].path) = wlog[k].content

\* the entries of _bootstrap.log in the layer, none when the file is absent
logEntries(fs) ==
  LET logPath == loc.P \o <<DEFAULT_LOG_FILE>>
  IN IF access(fs, logPath) /\ fs.f[logPath].kind = "log" THEN fs.f[logPath].lines ELSE <<>>

\* C28: when a run has gone through its last step, the log holds the entries
\* it held before the run followed by the entries of the run if the run had
\* --log-history, and the layer holds no log if the run had no --log-history
LogHistoryAcrossRuns ==
  Succeeded /\ runs > 0
    => IF opts.logHistory
       THEN /\ Len(logEntries(disk)) > Len(logEntries(snap0))
            /\ SubSeq(logEntries(disk), 1, Len(logEntries(snap0))) = logEntries(snap0)
       ELSE ~access(disk, loc.P \o <<DEFAULT_LOG_FILE>>)

\* C29: when the batch of copyAssets has ended, each returned path holds the
\* content of the source asset it was staged from, and two different source
\* assets of the batch have different returned paths
AssetsStagedApart ==
  pc = "foundations"
    => /\ Len(loc.copiedAssets) = Len(copyable)
       /\ \A i \in 1..Len(loc.copiedAssets) :
            Read(disk, loc.copiedAssets[i]) = Read(disk, copyable[i])
       /\ \A i, j \in 1..Len(loc.copiedAssets) :
            copyable[i] # copyable[j] => loc.copiedAssets[i] # loc.copiedAssets[j]

\* the timestamped directories under ai-meta/legacy that the run made
NewLegacyDirs == {dir \in LegacyDirs : dir \in disk.d /\ dir \notin snap0.d}

\* C30: when a run has ended, every timestamped directory under
\* ai-meta/legacy that the run made holds the whole tree of the previous
\* layer and, if the run wrote its metadata record, is listed in the
\* legacySources of that record; a run whose import failed has made none
LegacyDirsAccounted ==
  pc \in {"done", "failed"} /\ runs > 0 =>
    /\ \A dir \in NewLegacyDirs :
         /\ opts.prevLayer # NoPath
         /\ CopiedInto(snap0, opts.prevLayer, disk, dir)
         /\ Succeeded => Listed(dir, Read(disk, metadataPath).legacySources)
    /\ ImportFailed => NewLegacyDirs = {}
====
